---- MODULE Spec2Model ----
(***************************************************************************)
(* A model of the MIMPI runtime (src/mimpi.c): per ordered pair of ranks a *)
(* byte channel carrying frames, a receiver thread per peer that turns     *)
(* frames into Inbox entries, the user thread's Inbox_Retrieve walk, the   *)
(* Outbox shadow log of the deadlock detector, and the Collect/Distribute  *)
(* skeleton of the collectives.                                            *)
(***************************************************************************)
EXTENDS Integers, Sequences, FiniteSets, TLC

VARIABLES
    size,       \* MIMPI_World_size(): the number of ranks of the job
    detection,  \* MIMPI_deadlock_detection of every rank
    chan,       \* chan[s][d]: frames written by s and not yet read by d
    wopen,      \* wopen[s][d]: s still holds the write end of channel s->d
    ropen,      \* ropen[s][d]: d still holds the read end of channel s->d
    receiver,   \* receiver[r][p]: state of rank r's Receiver_Main for peer p
    inbox,      \* inbox[r][p]: MIMPI_inboxes[p] of rank r, between front and back
    outbox,     \* outbox[r][p]: MIMPI_outboxes[p] of rank r, top first
    pc,         \* pc[r]: where rank r's user thread is
    call,       \* call[r]: the arguments and locals of the call in progress
    pos,        \* pos[r]: index of `message` in Inbox_Retrieve (0 is front)
    hist,       \* hist[r]: the calls rank r's user thread has returned from
    plan,       \* the collectives every rank calls, in order
    input,      \* input[r]: the byte rank r's buffers are filled from
    quota,      \* the number of point-to-point calls the run may make
    heap        \* the memory of the inbox of one rank, where a run tracks it

vars == <<size, detection, chan, wopen, ropen, receiver, inbox, outbox,
          pc, call, pos, hist, plan, input, quota, heap>>

(***************************************************************************)
(* Program constants                                                       *)
(***************************************************************************)
MIMPI_GROUP_TAG == -1
MIMPI_CLOSE_TAG == -2
MIMPI_REQUEST_TAG == -3
MIMPI_ANY_TAG == 0
MIMPI_CHILDREN == 2
\* sizeof(MIMPI_Retcode), the status tail of a collective buffer
RetcodeSize == 4
\* sizeof(header_t), the payload size of a REQUEST frame
HeaderSize == 16

MIMPI_SUCCESS == "SUCCESS"
MIMPI_ERROR_ATTEMPTED_SELF_OP == "ATTEMPTED_SELF_OP"
MIMPI_ERROR_NO_SUCH_RANK == "NO_SUCH_RANK"
MIMPI_ERROR_REMOTE_FINISHED == "REMOTE_FINISHED"
MIMPI_ERROR_DEADLOCK_DETECTED == "DEADLOCK_DETECTED"

MIMPI_Op == {"MAX", "MIN", "SUM", "PROD"}
MIMPI_NOOP == "MAX"

(***************************************************************************)
(* Bounds of the model                                                     *)
(***************************************************************************)
\* the ranks of the point-to-point runs
P2PRanks == 0 .. 1
\* number of point-to-point calls made in a run, all ranks together
MaxCalls == 3

\* the ranks of the runs with collectives
CollRanks == 0 .. 1
\* number of collectives every rank calls in a run with collectives
MaxColl == 2
\* number of point-to-point calls made in a run with collectives
MaxCollCalls == 2
\* the count of a broadcast or a reduction
CollCount == 1
InputBytes == {3, 200}

\* the ranks of the runs in which ranks finish
FinRanks == 0 .. 1
\* number of point-to-point calls made in a run in which ranks finish
MaxFinCalls == 4

\* number of point-to-point calls made in a run of the fair specification
MaxArgCalls == 2
MIMPI_PREFIX_SIZE == 3
MaxFrames == 3
MaxWorld == 16
MaxBufFrames == 3
MaxListFrames == 3
MaxLiveCalls == 2

\* the tags of the point-to-point calls: the wildcard and two others
UserTags == {MIMPI_ANY_TAG, 1, 2}
\* the tags of the calls in the runs in which ranks finish
FinTags == {1, 2}
Counts == {1, 2}

Ranks == 0 .. (size - 1)
Peers(r) == Ranks \ {r}
Nil == <<>>

(***************************************************************************)
(* Utilities                                                               *)
(***************************************************************************)
_MIMPI_Match(expected_size, expected_tag, msize, mtag) ==
    IF expected_size # msize THEN FALSE
    ELSE IF expected_tag = 0 \/ mtag = 0 THEN TRUE
    ELSE expected_tag = mtag

_MIMPI_Update_Retcode(retcode, other) ==
    IF retcode = MIMPI_ERROR_NO_SUCH_RANK \/ other = MIMPI_ERROR_NO_SUCH_RANK
        THEN MIMPI_ERROR_NO_SUCH_RANK
    ELSE IF retcode = MIMPI_ERROR_ATTEMPTED_SELF_OP
            \/ other = MIMPI_ERROR_ATTEMPTED_SELF_OP
        THEN MIMPI_ERROR_ATTEMPTED_SELF_OP
    ELSE IF retcode = MIMPI_ERROR_REMOTE_FINISHED
            \/ other = MIMPI_ERROR_REMOTE_FINISHED
        THEN MIMPI_ERROR_REMOTE_FINISHED
    ELSE IF retcode = MIMPI_ERROR_DEADLOCK_DETECTED
            \/ other = MIMPI_ERROR_DEADLOCK_DETECTED
        THEN MIMPI_ERROR_DEADLOCK_DETECTED
    ELSE MIMPI_SUCCESS

(***************************************************************************)
(* Outbox: a stack of {tag, size}, top first                               *)
(***************************************************************************)
Outbox_Push(ob, tag, msize) == <<[tag |-> tag, size |-> msize]>> \o ob

\* index of the first entry, from the top, that Outbox_Pop's loop matches; 0 if none
Outbox_Find(ob, tag, msize) ==
    LET hits == {i \in 1 .. Len(ob) :
                    _MIMPI_Match(msize, tag, ob[i].size, ob[i].tag)}
    IN IF hits = {} THEN 0 ELSE CHOOSE i \in hits : \A j \in hits : i <= j

RemoveAt(s, i) == [k \in 1 .. (Len(s) - 1) |-> IF k < i THEN s[k] ELSE s[k + 1]]

\* Outbox_Pop(outbox, tag, size): whether an entry was removed, and the outbox after
Outbox_Pop(ob, tag, msize) ==
    LET i == Outbox_Find(ob, tag, msize)
    IN IF i = 0 THEN [found |-> FALSE, outbox |-> ob]
       ELSE [found |-> TRUE, outbox |-> RemoveAt(ob, i)]

(***************************************************************************)
(* Inbox                                                                   *)
(***************************************************************************)
\* _Inbox_Match without the comparison of the tags
_Inbox_Match_SizeOnly(message, tag, msize) == message.size = msize

_Inbox_Match(message, tag, msize) ==
    IF message.size # msize THEN FALSE
    ELSE IF message.tag = MIMPI_ANY_TAG \/ tag = MIMPI_ANY_TAG THEN TRUE
    ELSE message.tag = tag

\* _Inbox_Save with Inbox_Close saving nothing
_Inbox_Save_NoClose(ib, type, tag, msize, data) ==
    IF type = "CLOSE" THEN ib
    ELSE Append(ib, [type |-> type, tag |-> tag, size |-> msize, data |-> data])

\* _Inbox_Save with the CLOSE entry linked at the head of the list
_Inbox_Save_CloseFirst(ib, type, tag, msize, data) ==
    IF type = "CLOSE"
    THEN <<[type |-> type, tag |-> tag, size |-> msize, data |-> data]>> \o ib
    ELSE Append(ib, [type |-> type, tag |-> tag, size |-> msize, data |-> data])

\* _Inbox_Save: the old tail sentinel becomes the entry, a new sentinel follows.
\* A REQUEST entry has no data in the source; here its data field records which
\* call of the peer wrote the request (history only, nothing reads it to decide).
_Inbox_Save(ib, type, tag, msize, data) ==
    Append(ib, [type |-> type, tag |-> tag, size |-> msize, data |-> data])

\* Inbox_Retrieve with a CLOSE entry unlinked by the retrieve that returns on it
Inbox_Retrieve_DropClose(ib, ob, det, p, tag, msize) ==
    LET message == ib[p + 1]
        stay == [done |-> FALSE, ret |-> MIMPI_SUCCESS, data |-> Nil, req |-> Nil,
                 inbox |-> ib, outbox |-> ob, pos |-> p + 1]
        drop == [stay EXCEPT !.inbox = RemoveAt(ib, p + 1), !.pos = p]
        popped == Outbox_Pop(ob, message.size, message.tag)
    IN  IF message.type = "CLOSE"
            THEN [drop EXCEPT !.done = TRUE, !.ret = MIMPI_ERROR_REMOTE_FINISHED]
        ELSE IF message.type = "REQUEST"
            THEN IF ~det THEN stay
                 ELSE IF popped.found THEN [drop EXCEPT !.outbox = popped.outbox]
                 ELSE [drop EXCEPT !.done = TRUE, !.req = message,
                                   !.ret = MIMPI_ERROR_DEADLOCK_DETECTED]
        ELSE IF message.type = "MESSAGE" /\ _Inbox_Match(message, tag, msize)
            THEN [drop EXCEPT !.done = TRUE, !.data = message.data]
        ELSE stay

\* Inbox_Retrieve unlinking, with the matched message, the nodes walked past
Inbox_Retrieve_DropSkipped(ib, ob, det, p, tag, msize) ==
    LET message == ib[p + 1]
        stay == [done |-> FALSE, ret |-> MIMPI_SUCCESS, data |-> Nil, req |-> Nil,
                 inbox |-> ib, outbox |-> ob, pos |-> p + 1]
    IN  IF message.type = "CLOSE"
            THEN [stay EXCEPT !.done = TRUE, !.ret = MIMPI_ERROR_REMOTE_FINISHED,
                              !.pos = p]
        ELSE IF message.type = "REQUEST"
            THEN IF ~det THEN stay
                 ELSE LET popped == Outbox_Pop(ob, message.size, message.tag)
                      IN IF popped.found
                         THEN [stay EXCEPT !.inbox = RemoveAt(ib, p + 1),
                                           !.outbox = popped.outbox, !.pos = p]
                         ELSE [stay EXCEPT !.done = TRUE,
                                           !.ret = MIMPI_ERROR_DEADLOCK_DETECTED,
                                           !.req = message,
                                           !.inbox = RemoveAt(ib, p + 1), !.pos = p]
        ELSE IF message.type = "MESSAGE" /\ _Inbox_Match(message, tag, msize)
            THEN [stay EXCEPT !.done = TRUE, !.data = message.data,
                              !.inbox = SubSeq(ib, p + 2, Len(ib)), !.pos = 0]
        ELSE stay

\* One iteration of the loop of Inbox_Retrieve on an inbox whose node after
\* `message` (index p) is ready.  Outbox_Pop is called as the source calls it:
\* with the request's size in the tag parameter and its tag in the size parameter.
Inbox_Retrieve(ib, ob, det, p, tag, msize) ==
    LET message == ib[p + 1]
        stay == [done |-> FALSE, ret |-> MIMPI_SUCCESS, data |-> Nil, req |-> Nil,
                 inbox |-> ib, outbox |-> ob, pos |-> p + 1]
    IN  IF message.type = "CLOSE"
            THEN [stay EXCEPT !.done = TRUE, !.ret = MIMPI_ERROR_REMOTE_FINISHED,
                              !.pos = p]
        ELSE IF message.type = "REQUEST"
            THEN IF ~det THEN stay
                 ELSE LET popped == Outbox_Pop(ob, message.size, message.tag)
                      IN IF popped.found
                         THEN [stay EXCEPT !.inbox = RemoveAt(ib, p + 1),
                                           !.outbox = popped.outbox, !.pos = p]
                         ELSE [stay EXCEPT !.done = TRUE,
                                           !.ret = MIMPI_ERROR_DEADLOCK_DETECTED,
                                           !.req = message,
                                           !.inbox = RemoveAt(ib, p + 1), !.pos = p]
        ELSE IF message.type = "MESSAGE" /\ _Inbox_Match(message, tag, msize)
            THEN [stay EXCEPT !.done = TRUE, !.data = message.data,
                              !.inbox = RemoveAt(ib, p + 1), !.pos = p]
        ELSE stay

(***************************************************************************)
(* Channels and frames                                                     *)
(***************************************************************************)
Frame(tag, msize, data) == [tag |-> tag, size |-> msize, data |-> data]

\* _MIMPI_Send_Data on channel s->d: the write fails once the read end is closed
CanWrite(s, d) == wopen[s][d] /\ ropen[s][d]

_MIMPI_Send_Data(s, d) ==
    IF CanWrite(s, d) THEN MIMPI_SUCCESS ELSE MIMPI_ERROR_REMOTE_FINISHED

\* _MIMPI_Send's return code with the check of the range standing for both checks
_MIMPI_Send_RangeOnly(r, destination) ==
    IF destination < 0 \/ destination >= size \/ destination = r
    THEN MIMPI_ERROR_NO_SUCH_RANK
    ELSE _MIMPI_Send_Data(r, destination)

\* _MIMPI_Send's return code (the frame is written iff it is SUCCESS)
_MIMPI_Send(r, destination) ==
    IF destination = r THEN MIMPI_ERROR_ATTEMPTED_SELF_OP
    ELSE IF destination < 0 \/ destination >= size THEN MIMPI_ERROR_NO_SUCH_RANK
    ELSE _MIMPI_Send_Data(r, destination)

Written(ch, s, d, frame) == [ch EXCEPT ![s][d] = Append(@, frame)]

\* the payload of the n-th user message of a rank: count bytes, all n
Payload(n, count) == [i \in 1 .. count |-> n]

NumCalls(r, ops) == Cardinality({i \in 1 .. Len(hist[r]) : hist[r][i].op \in ops})

\* the point-to-point calls made so far: those returned and those in progress
Started(r) == NumCalls(r, {"Send", "Recv"}) + (IF pc[r] = "retrieve" THEN 1 ELSE 0)

RECURSIVE SumStarted(_)
SumStarted(n) == IF n = 0 THEN 0 ELSE Started(n - 1) + SumStarted(n - 1)

Budget == SumStarted(size) < quota

Idle == [op |-> "none"]

Returned(r, entry) ==
    /\ hist' = [hist EXCEPT ![r] = Append(@, entry)]
    /\ pc' = [pc EXCEPT ![r] = "idle"]
    /\ call' = [call EXCEPT ![r] = Idle]
    /\ pos' = [pos EXCEPT ![r] = 0]

(***************************************************************************)
(* Point-to-point calls                                                    *)
(***************************************************************************)
MIMPI_Send(r, count, destination, tag) ==
    /\ pc[r] = "idle"
    /\ Budget
    /\ LET retcode == _MIMPI_Send(r, destination)
           n == NumCalls(r, {"Send"}) + 1
           data == Payload(n, count)
       IN /\ chan' = IF retcode = MIMPI_SUCCESS
                        THEN Written(chan, r, destination, Frame(tag, count, data))
                        ELSE chan
          /\ outbox' = IF detection[r] /\ retcode = MIMPI_SUCCESS
                          THEN [outbox EXCEPT ![r][destination] =
                                    Outbox_Push(@, tag, count)]
                          ELSE outbox
          /\ Returned(r, [op |-> "Send", peer |-> destination, tag |-> tag,
                          count |-> count, ret |-> retcode, data |-> data,
                          req |-> Nil])
    /\ UNCHANGED <<size, detection, wopen, ropen, receiver, inbox, plan, input, quota, heap>>

\* MIMPI_Recv up to the call of Inbox_Retrieve: the rank checks and
\* _MIMPI_Deadlock_Request
MIMPI_Recv(r, count, source, tag) ==
    /\ pc[r] = "idle"
    /\ Budget
    /\ LET early == IF source = r THEN MIMPI_ERROR_ATTEMPTED_SELF_OP
                    ELSE IF source < 0 \/ source >= size
                        THEN MIMPI_ERROR_NO_SUCH_RANK
                    ELSE IF ~detection[r] THEN MIMPI_SUCCESS
                    ELSE _MIMPI_Send_Data(r, source)
           args == [op |-> "Recv", peer |-> source, tag |-> tag, count |-> count]
           header == [size |-> count, tag |-> tag, call |-> Len(hist[r]) + 1]
       IN IF early # MIMPI_SUCCESS
          THEN /\ Returned(r, [op |-> "Recv", peer |-> source, tag |-> tag,
                               count |-> count, ret |-> early, data |-> Nil,
                               req |-> Nil])
               /\ UNCHANGED chan
          ELSE /\ chan' = IF detection[r]
                             THEN Written(chan, r, source,
                                     Frame(MIMPI_REQUEST_TAG, HeaderSize, header))
                             ELSE chan
               /\ pc' = [pc EXCEPT ![r] = "retrieve"]
               /\ call' = [call EXCEPT ![r] = args]
               /\ pos' = [pos EXCEPT ![r] = 0]
               /\ UNCHANGED hist
    /\ UNCHANGED <<size, detection, wopen, ropen, receiver, inbox, outbox, plan, input, quota, heap>>

\* One iteration of Inbox_Retrieve's loop inside MIMPI_Recv; the iteration
\* that returns also returns from MIMPI_Recv.
Recv_Retrieve(r) ==
    /\ pc[r] = "retrieve"
    /\ call[r].op = "Recv"
    /\ pos[r] < Len(inbox[r][call[r].peer])
    /\ LET p == call[r].peer
           step == Inbox_Retrieve(inbox[r][p], outbox[r][p], detection[r], pos[r],
                                  call[r].tag, call[r].count)
       IN /\ inbox' = [inbox EXCEPT ![r][p] = step.inbox]
          /\ outbox' = [outbox EXCEPT ![r][p] = step.outbox]
          /\ IF step.done
             THEN Returned(r, [op |-> "Recv", peer |-> p, tag |-> call[r].tag,
                               count |-> call[r].count, ret |-> step.ret,
                               data |-> step.data, req |-> step.req])
             ELSE /\ pos' = [pos EXCEPT ![r] = step.pos]
                  /\ UNCHANGED <<pc, call, hist>>
    /\ UNCHANGED <<size, detection, chan, wopen, ropen, receiver, plan, input, quota, heap>>

(***************************************************************************)
(* Receiver                                                                *)
(***************************************************************************)
\* One iteration of Receiver_Main's loop of rank r for peer p: a frame is
\* read and saved, or the loop ends (close frame, or EOF: nothing left and
\* the write end closed), the descriptor is closed and Inbox_Close is called.
Receiver_Main(r, p) ==
    /\ receiver[r][p] = "running"
    /\ \/ chan[p][r] # <<>>
       \/ ~wopen[p][r]
    /\ IF chan[p][r] # <<>> /\ Head(chan[p][r]).tag # MIMPI_CLOSE_TAG
       THEN LET f == Head(chan[p][r])
            IN /\ chan' = [chan EXCEPT ![p][r] = Tail(@)]
               /\ inbox' = [inbox EXCEPT ![r][p] =
                     IF f.tag = MIMPI_REQUEST_TAG
                     THEN _Inbox_Save(@, "REQUEST", f.data.tag, f.data.size,
                                      f.data.call)
                     ELSE _Inbox_Save(@, "MESSAGE", f.tag, f.size, f.data)]
               /\ UNCHANGED <<receiver, ropen>>
       ELSE /\ chan' = [chan EXCEPT ![p][r] = IF @ = <<>> THEN @ ELSE Tail(@)]
            /\ ropen' = [ropen EXCEPT ![p][r] = FALSE]
            /\ inbox' = [inbox EXCEPT ![r][p] = _Inbox_Save(@, "CLOSE", 0, 0, Nil)]
            /\ receiver' = [receiver EXCEPT ![r][p] = "exited"]
    /\ UNCHANGED <<size, detection, wopen, outbox, pc, call, pos, hist, plan, input, quota, heap>>

(***************************************************************************)
(* Lifecycle                                                               *)
(***************************************************************************)
\* MIMPI_Finalize going to its joins with no close frame sent and the write
\* ends left open
MIMPI_Finalize_JoinFirst(r) ==
    /\ pc[r] = "idle"
    /\ pc' = [pc EXCEPT ![r] = "join"]
    /\ call' = [call EXCEPT ![r] = [op |-> "Finalize"]]
    /\ pos' = [pos EXCEPT ![r] = 0]
    /\ UNCHANGED <<size, detection, chan, wopen, ropen, receiver, inbox, outbox,
                   hist, plan, input, quota, heap>>

\* MIMPI_Finalize, first loop: a close frame to every peer, then the write
\* end is closed.
MIMPI_Finalize(r) ==
    /\ pc[r] = "idle"
    /\ chan' = [s \in Ranks |-> [d \in Ranks |->
                  IF s = r /\ d # r /\ CanWrite(s, d)
                  THEN Append(chan[s][d], Frame(MIMPI_CLOSE_TAG, 0, Nil))
                  ELSE chan[s][d]]]
    /\ wopen' = [wopen EXCEPT ![r] = [d \in Ranks |-> FALSE]]
    /\ pc' = [pc EXCEPT ![r] = "join"]
    /\ call' = [call EXCEPT ![r] = [op |-> "Finalize"]]
    /\ pos' = [pos EXCEPT ![r] = 0]
    /\ UNCHANGED <<size, detection, ropen, receiver, inbox, outbox, hist, plan, input, quota, heap>>

\* MIMPI_Finalize's second loop with no pthread_join: the inbox is destroyed
\* whether the receiver has returned or not
Finalize_Join_Detached(r) ==
    /\ pc[r] = "join"
    /\ LET k == pos[r]
       IN IF k >= size
          THEN /\ hist' = [hist EXCEPT ![r] = Append(@, [op |-> "Finalize"])]
               /\ pc' = [pc EXCEPT ![r] = "finalized"]
               /\ call' = [call EXCEPT ![r] = Idle]
               /\ UNCHANGED <<pos, inbox, outbox>>
          ELSE /\ pos' = [pos EXCEPT ![r] = k + 1]
               /\ inbox' = [inbox EXCEPT ![r][k] = <<>>]
               /\ outbox' = [outbox EXCEPT ![r][k] = <<>>]
               /\ UNCHANGED <<pc, call, hist>>
    /\ UNCHANGED <<size, detection, chan, wopen, ropen, receiver, plan, input, quota, heap>>

\* MIMPI_Finalize, second loop, one iteration: pthread_join of the receiver
\* of rank pos[r], then Inbox_Destroy and Outbox_Destroy; after the last
\* rank the call returns.
Finalize_Join(r) ==
    /\ pc[r] = "join"
    /\ LET k == pos[r]
       IN IF k >= size
          THEN /\ hist' = [hist EXCEPT ![r] = Append(@, [op |-> "Finalize"])]
               /\ pc' = [pc EXCEPT ![r] = "finalized"]
               /\ call' = [call EXCEPT ![r] = Idle]
               /\ UNCHANGED <<pos, inbox, outbox>>
          ELSE /\ k = r \/ receiver[r][k] = "exited"
               /\ pos' = [pos EXCEPT ![r] = k + 1]
               /\ inbox' = [inbox EXCEPT ![r][k] = <<>>]
               /\ outbox' = [outbox EXCEPT ![r][k] = <<>>]
               /\ UNCHANGED <<pc, call, hist>>
    /\ UNCHANGED <<size, detection, chan, wopen, ropen, receiver, plan, input, quota, heap>>

\* The process of rank r ends without MIMPI_Finalize (its main returns or it
\* is killed): the kernel closes every descriptor it holds.
Exit(r) ==
    /\ pc[r] = "idle"
    /\ pc' = [pc EXCEPT ![r] = "exited"]
    /\ wopen' = [wopen EXCEPT ![r] = [d \in Ranks |-> FALSE]]
    /\ ropen' = [s \in Ranks |-> [d \in Ranks |->
                    IF d = r THEN FALSE ELSE ropen[s][d]]]
    /\ receiver' = [receiver EXCEPT ![r] = [p \in Ranks |-> "exited"]]
    /\ UNCHANGED <<size, detection, chan, inbox, outbox, call, pos, hist, plan, input, quota, heap>>

(***************************************************************************)
(* Group communication                                                     *)
(***************************************************************************)
\* _MIMPI_Get_Neighbours with the parent not rotated back by the root
_MIMPI_Get_Neighbours_Unrotated(rank, root, n) ==
    LET index == ((n + rank - root) % n) + 1
        child(i) == index * MIMPI_CHILDREN + i
    IN [parent |-> IF index = 1 THEN -1
                   ELSE ((index \div MIMPI_CHILDREN) - 1) % n,
        children |-> [i \in 1 .. MIMPI_CHILDREN |->
                        IF child(i - 1) > n THEN -1
                        ELSE (child(i - 1) + root - 1) % n]]

\* _MIMPI_Get_Neighbours: the parent and the children of rank in the tree
\* rooted at root, -1 where there is none
_MIMPI_Get_Neighbours(rank, root, n) ==
    LET index == ((n + rank - root) % n) + 1
        child(i) == index * MIMPI_CHILDREN + i
    IN [parent |-> IF index = 1 THEN -1
                   ELSE ((index \div MIMPI_CHILDREN) + root - 1) % n,
        children |-> [i \in 1 .. MIMPI_CHILDREN |->
                        IF child(i - 1) > n THEN -1
                        ELSE (child(i - 1) + root - 1) % n]]

\* _MIMPI_Reduce on uint8_t buffers of count bytes
_MIMPI_Reduce(result, other, count, op) ==
    [i \in 1 .. count |->
        IF op = "MAX" THEN (IF other[i] > result[i] THEN other[i] ELSE result[i])
        ELSE IF op = "MIN" THEN (IF other[i] < result[i] THEN other[i] ELSE result[i])
        ELSE IF op = "SUM" THEN (result[i] + other[i]) % 256
        ELSE (result[i] * other[i]) % 256]

\* a byte of a buffer the call never wrote: what the caller had there before
OldByte == -1
\* a byte of a malloc'ed buffer nothing was copied to: any value
AnyByte == -2
Old(count) == [i \in 1 .. count |-> OldByte]
Uninitialized(count) == [i \in 1 .. count |-> AnyByte]

\* the count bytes rank r passes to its k-th collective
Input(r, k, count) == [i \in 1 .. count |-> (input[r] + 7 * (k - 1) + (i - 1)) % 256]

CollKinds == {"Barrier", "Bcast", "Reduce"}
CollIndex(r) == NumCalls(r, CollKinds) + 1

\* the locals of a collective call of rank r: the neighbours, the working
\* buffer `data` with its status tail, and the caller's buffers.  `observed`
\* records whether an internal send or receive of the call failed (history).
Locals(r, kind, k, root, op, ccount, dcount, send, buf) ==
    LET nb == _MIMPI_Get_Neighbours(r, root, size)
    IN [op |-> kind, k |-> k, root |-> root, rop |-> op,
        ccount |-> ccount, dcount |-> dcount,
        parent |-> nb.parent, children |-> nb.children,
        phase |-> "collect", i |-> 0, peer |-> -1, tag |-> MIMPI_GROUP_TAG,
        size |-> ccount + RetcodeSize,
        data |-> send, status |-> MIMPI_SUCCESS,
        send |-> send, buf |-> buf, observed |-> FALSE]

\* _MIMPI_Send(data, size, destination, MIMPI_GROUP_TAG) of the working
\* buffer, and the fold of its return code into *status
Group_Send(r, L, ch, destination) ==
    LET retcode == _MIMPI_Send(r, destination)
        frame == Frame(MIMPI_GROUP_TAG, L.size,
                       [payload |-> L.data, status |-> L.status])
    IN [L |-> [L EXCEPT !.status = _MIMPI_Update_Retcode(@, retcode),
                         !.observed = @ \/ retcode # MIMPI_SUCCESS],
        chan |-> IF retcode = MIMPI_SUCCESS
                    THEN Written(ch, r, destination, frame) ELSE ch]

\* _MIMPI_Distribute from its loop over the children (child i on) to its
\* return: the buffer is sent to every child, and a rank with a parent
\* copies it to recv_data if the status is SUCCESS
RECURSIVE Distribute_Send(_, _, _, _)
Distribute_Send(r, L, ch, i) ==
    IF i > MIMPI_CHILDREN
    THEN [done |-> TRUE, chan |-> ch,
          L |-> IF L.parent # -1 /\ L.status = MIMPI_SUCCESS
                   THEN [L EXCEPT !.buf = IF L.dcount = 0 THEN @ ELSE L.data]
                   ELSE L]
    ELSE IF L.children[i] = -1 THEN Distribute_Send(r, L, ch, i + 1)
    ELSE LET sent == Group_Send(r, L, ch, L.children[i])
         IN Distribute_Send(r, sent.L, sent.chan, i + 1)

\* _MIMPI_Distribute from its start: the root copies recv_data to the buffer
\* and goes on to send; any other rank receives from its parent
Distribute_Start(r, L0, ch) ==
    LET L == [L0 EXCEPT !.phase = "distribute", !.size = L0.dcount + RetcodeSize]
    IN IF L.parent = -1
       THEN Distribute_Send(r, [L EXCEPT !.data = IF L.dcount = 0 THEN <<>>
                                                   ELSE L.buf], ch, 1)
       ELSE [done |-> FALSE, chan |-> ch,
             L |-> [L EXCEPT !.peer = L.parent, !.data = Uninitialized(L.dcount)]]

\* _MIMPI_Collect from its loop over the children (child i on) to the next
\* receive; after the last child: the copy to recv_data (MIMPI_Reduce passes
\* recv_data at the root only), the send to the parent, and _MIMPI_Distribute
RECURSIVE Collect_From(_, _, _, _)
Collect_From(r, L, ch, i) ==
    IF i > MIMPI_CHILDREN
    THEN LET L1 == IF L.op = "Reduce" /\ r = L.root /\ L.ccount # 0
                      THEN [L EXCEPT !.buf = L.data] ELSE L
             sent == IF L1.parent # -1 THEN Group_Send(r, L1, ch, L1.parent)
                     ELSE [L |-> L1, chan |-> ch]
         IN Distribute_Start(r, sent.L, sent.chan)
    ELSE IF L.children[i] = -1 THEN Collect_From(r, L, ch, i + 1)
    ELSE [done |-> FALSE, chan |-> ch,
          L |-> [L EXCEPT !.i = i, !.peer = L.children[i]]]

\* the step of a collective call: it returns, or it waits in a receive
Proceed(r, run) ==
    /\ chan' = run.chan
    /\ IF run.done
       THEN Returned(r, [op |-> run.L.op, k |-> run.L.k, ret |-> run.L.status,
                         buf |-> run.L.buf, send |-> run.L.send,
                         observed |-> run.L.observed])
       ELSE /\ pc' = [pc EXCEPT ![r] = "retrieve"]
            /\ call' = [call EXCEPT ![r] = run.L]
            /\ pos' = [pos EXCEPT ![r] = 0]
            /\ UNCHANGED hist

Collective(r, kind) ==
    /\ pc[r] = "idle"
    /\ CollIndex(r) <= Len(plan)
    /\ plan[CollIndex(r)].kind = kind

MIMPI_Barrier(r) ==
    /\ Collective(r, "Barrier")
    /\ LET k == CollIndex(r)
       IN Proceed(r, Collect_From(r,
             Locals(r, "Barrier", k, 0, MIMPI_NOOP, 0, 0, <<>>, <<>>), chan, 1))
    /\ UNCHANGED <<size, detection, wopen, ropen, receiver, inbox, outbox,
                   plan, input, quota, heap>>

\* the root's buffer holds its input, any other rank's what it held before
MIMPI_Bcast(r) ==
    /\ Collective(r, "Bcast")
    /\ LET k == CollIndex(r)
           c == plan[k]
           buf == IF r = c.root THEN Input(r, k, c.count) ELSE Old(c.count)
       IN Proceed(r, Collect_From(r,
             Locals(r, "Bcast", k, c.root, MIMPI_NOOP, 0, c.count, <<>>, buf),
             chan, 1))
    /\ UNCHANGED <<size, detection, wopen, ropen, receiver, inbox, outbox,
                   plan, input, quota, heap>>

MIMPI_Reduce(r) ==
    /\ Collective(r, "Reduce")
    /\ LET k == CollIndex(r)
           c == plan[k]
       IN Proceed(r, Collect_From(r,
             Locals(r, "Reduce", k, c.root, c.op, c.count, 0,
                    Input(r, k, c.count), Old(c.count)), chan, 1))
    /\ UNCHANGED <<size, detection, wopen, ropen, receiver, inbox, outbox,
                   plan, input, quota, heap>>

\* One iteration of Inbox_Retrieve's loop inside _MIMPI_Collect's receive
\* from child i; the iteration that returns folds the status and, after a
\* successful receive, the child's status and payload, and goes on.
Collect_Retrieve(r) ==
    /\ pc[r] = "retrieve"
    /\ call[r].op \in CollKinds
    /\ call[r].phase = "collect"
    /\ pos[r] < Len(inbox[r][call[r].peer])
    /\ \E L \in {call[r]} :
       \E step \in {Inbox_Retrieve(inbox[r][L.peer], outbox[r][L.peer],
                                   detection[r], pos[r], L.tag, L.size)} :
       LET p == L.peer
           L1 == [L EXCEPT !.status = _MIMPI_Update_Retcode(@, step.ret),
                           !.observed = @ \/ step.ret # MIMPI_SUCCESS]
           L2 == IF step.ret # MIMPI_SUCCESS THEN L1
                 ELSE [L1 EXCEPT
                         !.status = _MIMPI_Update_Retcode(@, step.data.status),
                         !.data = _MIMPI_Reduce(@, step.data.payload, L.ccount,
                                                L.rop)]
       IN /\ inbox' = [inbox EXCEPT ![r][p] = step.inbox]
          /\ outbox' = [outbox EXCEPT ![r][p] = step.outbox]
          /\ IF step.done
             THEN \E run \in {Collect_From(r, L2, chan, L.i + 1)} :
                     Proceed(r, run)
             ELSE /\ pos' = [pos EXCEPT ![r] = step.pos]
                  /\ UNCHANGED <<pc, call, hist, chan>>
    /\ UNCHANGED <<size, detection, wopen, ropen, receiver, plan, input, quota, heap>>

\* One iteration of Inbox_Retrieve's loop inside _MIMPI_Distribute's receive
\* from the parent; a successful receive overwrites the whole buffer, the
\* status tail included.
Distribute_Retrieve(r) ==
    /\ pc[r] = "retrieve"
    /\ call[r].op \in CollKinds
    /\ call[r].phase = "distribute"
    /\ pos[r] < Len(inbox[r][call[r].peer])
    /\ \E L \in {call[r]} :
       \E step \in {Inbox_Retrieve(inbox[r][L.peer], outbox[r][L.peer],
                                   detection[r], pos[r], L.tag, L.size)} :
       LET p == L.peer
           L1 == IF step.ret # MIMPI_SUCCESS THEN L
                 ELSE [L EXCEPT !.data = step.data.payload,
                                !.status = step.data.status]
           L2 == [L1 EXCEPT !.status = _MIMPI_Update_Retcode(@, step.ret),
                            !.observed = @ \/ step.ret # MIMPI_SUCCESS]
       IN /\ inbox' = [inbox EXCEPT ![r][p] = step.inbox]
          /\ outbox' = [outbox EXCEPT ![r][p] = step.outbox]
          /\ IF step.done
             THEN \E run \in {Distribute_Send(r, L2, chan, 1)} :
                     Proceed(r, run)
             ELSE /\ pos' = [pos EXCEPT ![r] = step.pos]
                  /\ UNCHANGED <<pc, call, hist, chan>>
    /\ UNCHANGED <<size, detection, wopen, ropen, receiver, plan, input, quota, heap>>

(***************************************************************************)
(* Specification of the point-to-point runs                                *)
(***************************************************************************)
\* the ranks after MIMPI_Init, apart from the memory
InitRanks(n, det) ==
    /\ size = n
    /\ detection = [r \in 0 .. (n - 1) |-> det]
    /\ chan = [s \in 0 .. (n - 1) |-> [d \in 0 .. (n - 1) |-> <<>>]]
    /\ wopen = [s \in 0 .. (n - 1) |-> [d \in 0 .. (n - 1) |-> s # d]]
    /\ ropen = [s \in 0 .. (n - 1) |-> [d \in 0 .. (n - 1) |-> s # d]]
    /\ receiver = [r \in 0 .. (n - 1) |-> [p \in 0 .. (n - 1) |->
                      IF r = p THEN "none" ELSE "running"]]
    /\ inbox = [r \in 0 .. (n - 1) |-> [p \in 0 .. (n - 1) |-> <<>>]]
    /\ outbox = [r \in 0 .. (n - 1) |-> [p \in 0 .. (n - 1) |-> <<>>]]
    /\ pc = [r \in 0 .. (n - 1) |-> "idle"]
    /\ call = [r \in 0 .. (n - 1) |-> Idle]
    /\ pos = [r \in 0 .. (n - 1) |-> 0]
    /\ hist = [r \in 0 .. (n - 1) |-> <<>>]

\* the runs that follow the entries of the inboxes, not their memory
InitWorld(n, det) ==
    /\ InitRanks(n, det)
    /\ heap = Nil

Init ==
    /\ \E det \in BOOLEAN : InitWorld(Cardinality(P2PRanks), det)
    /\ plan = <<>>
    /\ input = [r \in P2PRanks |-> 0]
    /\ quota = MaxCalls

Next ==
    \/ \E r \in Ranks : \E d \in Peers(r), c \in Counts, t \in UserTags :
          MIMPI_Send(r, c, d, t)
    \/ \E r \in Ranks : \E s \in Peers(r), c \in Counts, t \in UserTags :
          MIMPI_Recv(r, c, s, t)
    \/ \E r \in Ranks : Recv_Retrieve(r)
    \/ \E r \in Ranks, p \in Ranks : Receiver_Main(r, p)

Spec == Init /\ [][Next]_vars

\* The same runs, with the scheduling of the threads stated: a user thread
\* that can take the next iteration of Inbox_Retrieve eventually takes it, and
\* a receiver thread that can read eventually reads.
SpecFair ==
    /\ Init
    /\ [][Next]_vars
    /\ \A r \in P2PRanks :
          /\ WF_vars(Recv_Retrieve(r))
          /\ \A p \in P2PRanks : WF_vars(Receiver_Main(r, p))

(***************************************************************************)
(* Specification of the point-to-point runs with any rank argument         *)
(***************************************************************************)
\* the destination and source arguments: every rank of the world, the
\* caller's own, and the two nearest values outside [0, size)
RankArgs == -1 .. Cardinality(P2PRanks)

InitArgs ==
    /\ \E det \in BOOLEAN : InitWorld(Cardinality(P2PRanks), det)
    /\ plan = <<>>
    /\ input = [r \in P2PRanks |-> 0]
    /\ quota = MaxArgCalls

NextArgs ==
    \/ \E r \in Ranks : \E d \in RankArgs, c \in Counts, t \in UserTags :
          MIMPI_Send(r, c, d, t)
    \/ \E r \in Ranks : \E s \in RankArgs, c \in Counts, t \in UserTags :
          MIMPI_Recv(r, c, s, t)
    \/ \E r \in Ranks : Recv_Retrieve(r)
    \/ \E r \in Ranks, p \in Ranks : Receiver_Main(r, p)

SpecArgs == InitArgs /\ [][NextArgs]_vars

(***************************************************************************)
(* Framing: the bytes of one channel                                       *)
(***************************************************************************)
\* sizeof(prefix_t): the header and the payload prefix.  The prefix holds
\* MIMPI_PREFIX_SIZE bytes here, 496 in the source.
MIMPI_PACKET_SIZE == HeaderSize + MIMPI_PREFIX_SIZE

\* the n bytes of an unsigned value, least significant first
RECURSIVE LittleEndian(_, _)
LittleEndian(v, n) ==
    IF n = 0 THEN <<>> ELSE <<v % 256>> \o LittleEndian(v \div 256, n - 1)

RECURSIVE Unsigned(_)
Unsigned(bytes) ==
    IF bytes = <<>> THEN 0 ELSE Head(bytes) + 256 * Unsigned(Tail(bytes))

\* the four bytes of an int in two's complement, and the int of four bytes
IntBytes(v) ==
    IF v >= 0 THEN LittleEndian(v, 4)
    ELSE LET low == LittleEndian((v + 2147483647) + 1, 4)
         IN [low EXCEPT ![4] = @ + 128]

BytesInt(bytes) ==
    IF bytes[4] < 128 THEN Unsigned(bytes)
    ELSE (Unsigned([bytes EXCEPT ![4] = @ - 128]) - 2147483647) - 1

Zeros(n) == [i \in 1 .. n |-> 0]

\* header_t in memory: size_t size, int tag, four bytes of padding
HeaderBytes(msize, tag) == LittleEndian(msize, 8) \o IntBytes(tag) \o Zeros(4)

prefix_count(count) == IF count < MIMPI_PREFIX_SIZE THEN count ELSE MIMPI_PREFIX_SIZE
suffix_count(count) == count - prefix_count(count)

\* _Receiver_Receive's test for a payload that ends in the prefix, off by one
Has_Suffix_Late(msize) == msize > MIMPI_PREFIX_SIZE + 1

\* _Receiver_Receive: the payload goes on after the prefix
Has_Suffix(msize) == msize > MIMPI_PREFIX_SIZE

\* the prefix_t _MIMPI_Send builds: memset to zero, the header, the first
\* prefix_count bytes of the payload
PrefixBytes(count, tag, data) ==
    HeaderBytes(count, tag) \o SubSeq(data, 1, prefix_count(count))
        \o Zeros(MIMPI_PREFIX_SIZE - prefix_count(count))

\* the count bytes of a payload
FrameData(seed, count) == [i \in 1 .. count |-> (seed + i) % 256]

FrameSizes == {0, 1, MIMPI_PREFIX_SIZE, MIMPI_PREFIX_SIZE + 1, MIMPI_PREFIX_SIZE + 2}
FrameTags == {MIMPI_ANY_TAG, 1, 300, MIMPI_GROUP_TAG}
FrameSeeds == {0, 254}

\* _MIMPI_Send of rank s to d from the checks of the ranks on, and
\* _MIMPI_Send_Data's first chsend_all: the prefix is written
Send_Prefix(s, d, count, tag, seed) ==
    /\ pc[s] = "idle"
    /\ Len(hist[s]) < quota
    /\ LET data == FrameData(seed, count)
           sent == [op |-> "Send", peer |-> d, tag |-> tag, count |-> count,
                    data |-> data]
       IN /\ chan' = [chan EXCEPT ![s][d] = @ \o PrefixBytes(count, tag, data)]
          /\ hist' = [hist EXCEPT ![s] = Append(@, sent)]
          /\ IF suffix_count(count) = 0
             THEN UNCHANGED <<pc, call>>
             ELSE /\ pc' = [pc EXCEPT ![s] = "suffix"]
                  /\ call' = [call EXCEPT ![s] = sent]
    /\ UNCHANGED <<size, detection, wopen, ropen, receiver, inbox, outbox, pos,
                   plan, input, quota, heap>>

\* _MIMPI_Send_Data's second chsend_all: the rest of the payload is written
Send_Suffix(s) ==
    /\ pc[s] = "suffix"
    /\ LET c == call[s]
       IN chan' = [chan EXCEPT ![s][c.peer] =
                      @ \o SubSeq(c.data, prefix_count(c.count) + 1, c.count)]
    /\ pc' = [pc EXCEPT ![s] = "idle"]
    /\ call' = [call EXCEPT ![s] = Idle]
    /\ UNCHANGED <<size, detection, wopen, ropen, receiver, inbox, outbox, pos,
                   hist, plan, input, quota, heap>>

\* _Receiver_Receive of rank r for peer p up to its second chrecv_all: the
\* prefix is read and decoded; a payload that ends in the prefix is returned
\* and Receiver_Main saves the message
Receive_Prefix(r, p) ==
    /\ receiver[r][p] = "running"
    /\ Len(chan[p][r]) >= MIMPI_PACKET_SIZE
    /\ LET prefix == SubSeq(chan[p][r], 1, MIMPI_PACKET_SIZE)
           msize == Unsigned(SubSeq(prefix, 1, 8))
           tag == BytesInt(SubSeq(prefix, 9, 12))
           data == SubSeq(prefix, HeaderSize + 1, HeaderSize + prefix_count(msize))
       IN /\ chan' = [chan EXCEPT ![p][r] =
                         SubSeq(@, MIMPI_PACKET_SIZE + 1, Len(@))]
          /\ IF msize = 0 \/ ~Has_Suffix(msize)
             THEN /\ inbox' = [inbox EXCEPT ![r][p] =
                                   _Inbox_Save(@, "MESSAGE", tag, msize, data)]
                  /\ UNCHANGED <<receiver, call>>
             ELSE /\ receiver' = [receiver EXCEPT ![r][p] = "suffix"]
                  /\ call' = [call EXCEPT ![r] =
                                  [tag |-> tag, size |-> msize, data |-> data]]
                  /\ UNCHANGED inbox
    /\ UNCHANGED <<size, detection, wopen, ropen, outbox, pc, pos, hist, plan,
                   input, quota, heap>>

\* _Receiver_Receive's second chrecv_all: the rest of the payload is read,
\* and Receiver_Main saves the message
Receive_Suffix(r, p) ==
    /\ receiver[r][p] = "suffix"
    /\ Len(chan[p][r]) >= suffix_count(call[r].size)
    /\ LET c == call[r]
           n == suffix_count(c.size)
       IN /\ chan' = [chan EXCEPT ![p][r] = SubSeq(@, n + 1, Len(@))]
          /\ inbox' = [inbox EXCEPT ![r][p] =
                _Inbox_Save(@, "MESSAGE", c.tag, c.size,
                            c.data \o SubSeq(chan[p][r], 1, n))]
    /\ receiver' = [receiver EXCEPT ![r][p] = "running"]
    /\ call' = [call EXCEPT ![r] = Idle]
    /\ UNCHANGED <<size, detection, wopen, ropen, outbox, pc, pos, hist, plan,
                   input, quota, heap>>

\* rank 0 writes frames to rank 1, whose receiver reads them
InitFrame ==
    /\ InitWorld(2, FALSE)
    /\ plan = <<>>
    /\ input = [r \in 0 .. 1 |-> 0]
    /\ quota = MaxFrames

NextFrame ==
    \/ \E count \in FrameSizes, tag \in FrameTags, seed \in FrameSeeds :
          Send_Prefix(0, 1, count, tag, seed)
    \/ Send_Suffix(0)
    \/ Receive_Prefix(1, 0)
    \/ Receive_Suffix(1, 0)

SpecFrame == InitFrame /\ [][NextFrame]_vars

(***************************************************************************)
(* Specification of the tree of a collective                               *)
(***************************************************************************)
\* a world of any size up to MaxWorld and a collective with any root
InitTree ==
    /\ \E n \in 1 .. MaxWorld : InitWorld(n, FALSE)
    /\ \E root \in 0 .. (size - 1) :
          plan = <<[kind |-> "Bcast", root |-> root, op |-> MIMPI_NOOP, count |-> 0]>>
    /\ input = [r \in 0 .. (size - 1) |-> 0]
    /\ quota = 0

\* the call of _MIMPI_Get_Neighbours at the start of a collective of rank r;
\* the ranks are taken in their order
Get_Neighbours(r) ==
    /\ call[r] = Idle
    /\ \A q \in Ranks : q < r => call[q] # Idle
    /\ LET nb == _MIMPI_Get_Neighbours(r, plan[1].root, size)
       IN call' = [call EXCEPT ![r] = [op |-> "Neighbours", parent |-> nb.parent,
                                        children |-> nb.children]]
    /\ UNCHANGED <<size, detection, chan, wopen, ropen, receiver, inbox, outbox,
                   pc, pos, hist, plan, input, quota, heap>>

NextTree == \E r \in Ranks : Get_Neighbours(r)

SpecTree == InitTree /\ [][NextTree]_vars

(***************************************************************************)
(* The payload buffers of one inbox                                        *)
(***************************************************************************)
\* Pointers: NULL, a buffer malloc returned (its index in heap.bufs), or the
\* indeterminate value of a pointer nothing was assigned to.
NULL == 0
Wild == -1

\* free(pointer): heap.bufs[b] counts the calls of free on buffer b, and
\* heap.wild those on a pointer that is no buffer
Free(h, pointer) ==
    IF pointer = NULL THEN h
    ELSE IF pointer = Wild THEN [h EXCEPT !.wild = @ + 1]
    ELSE [h EXCEPT !.bufs[pointer] = @ + 1]

\* malloc: a new buffer, which *data points to
Malloc(h) == [h EXCEPT !.bufs = Append(@, 0), !.data = Len(h.bufs) + 1]

\* One iteration of Receiver_Main's loop of rank r for peer p on a frame with
\* a user or group tag: _Receiver_Receive allocates *data for a frame with a
\* payload and leaves it as it was for a frame of size 0, and
\* Inbox_Save_Message stores it in the entry.
Receive_Message(r, p, tag, msize) ==
    /\ receiver[r][p] = "running"
    /\ heap.frames < quota
    /\ LET h == IF msize = 0 THEN heap ELSE Malloc(heap)
       IN /\ inbox' = [inbox EXCEPT ![r][p] =
                          _Inbox_Save(@, "MESSAGE", tag, msize, h.data)]
          /\ heap' = [h EXCEPT !.frames = @ + 1]
    /\ UNCHANGED <<size, detection, chan, wopen, ropen, receiver, outbox, pc,
                   call, pos, hist, plan, input, quota>>

\* The same on a REQUEST frame: its payload of sizeof(header_t) bytes is
\* allocated, Inbox_Save_Request stores no data, and the buffer is freed;
\* data keeps pointing to it.
Receive_Request(r, p, tag, msize) ==
    /\ receiver[r][p] = "running"
    /\ heap.frames < quota
    /\ LET h == Malloc(heap)
       IN /\ inbox' = [inbox EXCEPT ![r][p] =
                          _Inbox_Save(@, "REQUEST", tag, msize, NULL)]
          /\ heap' = [Free(h, h.data) EXCEPT !.frames = @ + 1]
    /\ UNCHANGED <<size, detection, chan, wopen, ropen, receiver, outbox, pc,
                   call, pos, hist, plan, input, quota>>

\* The loop ends on a close frame or at EOF: Inbox_Close
Receive_Close(r, p) ==
    /\ receiver[r][p] = "running"
    /\ inbox' = [inbox EXCEPT ![r][p] = _Inbox_Save(@, "CLOSE", 0, 0, NULL)]
    /\ receiver' = [receiver EXCEPT ![r][p] = "exited"]
    /\ UNCHANGED <<size, detection, chan, wopen, ropen, outbox, pc, call, pos,
                   hist, plan, input, quota, heap>>

\* Inbox_Retrieve of rank r unlinks entry k of the inbox for peer p, a
\* MESSAGE it matched or a REQUEST: _Inbox_Delete frees the entry's data
Entry_Delete(r, p, k) ==
    /\ pc[r] = "idle"
    /\ k \in 1 .. Len(inbox[r][p])
    /\ inbox[r][p][k].type = "MESSAGE"
          \/ (inbox[r][p][k].type = "REQUEST" /\ detection[r])
    /\ heap' = Free(heap, inbox[r][p][k].data)
    /\ inbox' = [inbox EXCEPT ![r][p] = RemoveAt(@, k)]
    /\ UNCHANGED <<size, detection, chan, wopen, ropen, receiver, outbox, pc,
                   call, pos, hist, plan, input, quota>>

\* MIMPI_Finalize of rank r after the join of the receiver for peer p:
\* Inbox_Destroy frees the data of every entry left
RECURSIVE FreeAll(_, _)
FreeAll(h, entries) ==
    IF entries = <<>> THEN h
    ELSE FreeAll(Free(h, Head(entries).data), Tail(entries))

Inbox_Destroy(r, p) ==
    /\ pc[r] = "idle"
    /\ receiver[r][p] = "exited"
    /\ heap' = FreeAll(heap, inbox[r][p])
    /\ inbox' = [inbox EXCEPT ![r][p] = <<>>]
    /\ pc' = [pc EXCEPT ![r] = "finalized"]
    /\ UNCHANGED <<size, detection, chan, wopen, ropen, receiver, outbox, call,
                   pos, hist, plan, input, quota>>

\* the frames rank 1 receives from rank 0: payloads of 0 bytes and of 1 byte.
\* Receiver_Main declares data and assigns nothing to it, so it starts NULL
\* or as any other value.
InitBuf ==
    /\ \E det \in BOOLEAN : InitRanks(2, det)
    /\ plan = <<>>
    /\ input = [r \in 0 .. 1 |-> 0]
    /\ quota = MaxBufFrames
    /\ \E d \in {NULL, Wild} :
          heap = [data |-> d, bufs |-> <<>>, wild |-> 0, frames |-> 0]

NextBuf ==
    \/ \E msize \in {0, 1} : Receive_Message(1, 0, 1, msize)
    \/ Receive_Request(1, 0, 1, 1)
    \/ Receive_Close(1, 0)
    \/ \E k \in 1 .. MaxBufFrames : Entry_Delete(1, 0, k)
    \/ Inbox_Destroy(1, 0)

SpecBuf == InitBuf /\ [][NextBuf]_vars

(***************************************************************************)
(* The list of one inbox, statement by statement                           *)
(***************************************************************************)
\* heap.nodes[n] is the struct Inbox_Message at address n; heap.p holds the
\* locals of the receiver thread inside _Inbox_Save, heap.c those of the user
\* thread inside Inbox_Retrieve.  heap.saved and heap.deleted record the
\* nodes posted and the nodes unlinked (history).

\* _Inbox_New
Guard == [type |-> "GUARD", next |-> NULL, available |-> 0, tag |-> 0,
          size |-> 0, data |-> NULL, freed |-> FALSE]

\* the statement of _Inbox_Save that follows a statement, with sem_post
\* moved before the writes of the fields
Save_Next_PostFirst(step) ==
    IF step = "new" THEN "post"
    ELSE IF step = "post" THEN "type"
    ELSE IF step = "type" THEN "link"
    ELSE IF step = "link" THEN "fields"
    ELSE "idle"

\* the statement of _Inbox_Save that follows a statement: the new sentinel,
\* the type, the next pointer, the tag, size and data, and sem_post
Save_Next(step) ==
    IF step = "new" THEN "type"
    ELSE IF step = "type" THEN "link"
    ELSE IF step = "link" THEN "fields"
    ELSE IF step = "fields" THEN "post"
    ELSE "idle"

\* what the receiver saves: messages of two tags, a request, the close entry
SaveKinds ==
    {[type |-> "MESSAGE", tag |-> 1], [type |-> "MESSAGE", tag |-> 2],
     [type |-> "REQUEST", tag |-> 1], [type |-> "CLOSE", tag |-> 0]}

ListUnchanged ==
    UNCHANGED <<size, detection, chan, wopen, ropen, receiver, inbox, outbox, pc,
                call, pos, hist, plan, input, quota>>

\* _Inbox_Save is called and reads inbox->back
Save_Start(kind) ==
    /\ heap.p.pc = "idle"
    /\ heap.frames < quota
    /\ heap' = [heap EXCEPT !.p = [pc |-> "new", message |-> heap.back,
                                    type |-> kind.type, tag |-> kind.tag],
                             !.frames = @ + 1]
    /\ ListUnchanged

\* the next statement of _Inbox_Save; after Inbox_Close the thread returns
Save_Step ==
    /\ heap.p.pc \notin {"idle", "exited"}
    /\ LET m == heap.p.message
           after == IF Save_Next(heap.p.pc) = "idle" /\ heap.p.type = "CLOSE"
                    THEN "exited" ELSE Save_Next(heap.p.pc)
           h == [heap EXCEPT !.p.pc = after]
       IN heap' =
            IF heap.p.pc = "new"
                THEN [h EXCEPT !.nodes = Append(@, Guard),
                               !.back = Len(heap.nodes) + 1]
            ELSE IF heap.p.pc = "type"
                THEN [h EXCEPT !.nodes[m].type = heap.p.type]
            ELSE IF heap.p.pc = "link"
                THEN [h EXCEPT !.nodes[m].next = heap.back]
            ELSE IF heap.p.pc = "fields"
                THEN [h EXCEPT !.nodes[m].tag = heap.p.tag, !.nodes[m].size = 1]
            ELSE [h EXCEPT !.nodes[m].available = @ + 1,
                           !.saved = Append(@, m)]
    /\ ListUnchanged

\* Inbox_Retrieve is called: previous = NULL, message = inbox->front
Retrieve_Start(tag) ==
    /\ heap.c.pc = "idle"
    /\ heap' = [heap EXCEPT !.c = [pc |-> "next", previous |-> NULL,
                                    message |-> heap.front, tag |-> tag,
                                    next |-> NULL, after |-> "none"]]
    /\ ListUnchanged

\* previous = message; message = message->next
Retrieve_Next ==
    /\ heap.c.pc = "next"
    /\ heap' = [heap EXCEPT !.c.pc = "wait", !.c.previous = heap.c.message,
                             !.c.message = heap.nodes[heap.c.message].next]
    /\ ListUnchanged

\* sem_wait and sem_post on message->available
Retrieve_Wait ==
    /\ heap.c.pc = "wait"
    /\ heap.nodes[heap.c.message].available > 0
    /\ heap' = [heap EXCEPT !.c.pc = "type"]
    /\ ListUnchanged

\* the tests of the type: return on CLOSE, go to _Inbox_Delete on a REQUEST
\* (with deadlock detection) and on a MESSAGE that matches, else go on
Retrieve_Type ==
    /\ heap.c.pc = "type"
    /\ LET m == heap.nodes[heap.c.message]
       IN heap' =
            IF m.type = "CLOSE" THEN [heap EXCEPT !.c.pc = "idle"]
            ELSE IF m.type = "REQUEST"
                THEN IF detection[1]
                     THEN [heap EXCEPT !.c.pc = "delete", !.c.after = "request"]
                     ELSE [heap EXCEPT !.c.pc = "next"]
            ELSE IF m.type = "MESSAGE" /\ _Inbox_Match(m, heap.c.tag, 1)
                THEN [heap EXCEPT !.c.pc = "delete", !.c.after = "success"]
            ELSE [heap EXCEPT !.c.pc = "next"]
    /\ ListUnchanged

\* _Inbox_Delete(message): next = message->next, and the node is freed
Retrieve_Delete ==
    /\ heap.c.pc = "delete"
    /\ heap' = [heap EXCEPT !.c.pc = "unlink",
                             !.c.next = heap.nodes[heap.c.message].next,
                             !.nodes[heap.c.message].freed = TRUE]
    /\ ListUnchanged

\* previous->next = the value _Inbox_Delete returned; after a MESSAGE the
\* call returns; after a REQUEST message = previous, and Outbox_Pop finds an
\* entry (the loop goes on) or not (the call returns DEADLOCK_DETECTED)
Retrieve_Unlink ==
    /\ heap.c.pc = "unlink"
    /\ \E found \in BOOLEAN :
          heap' = [heap EXCEPT
                     !.nodes[heap.c.previous].next = heap.c.next,
                     !.deleted = @ \cup {heap.c.message},
                     !.c.message = IF heap.c.after = "request"
                                   THEN heap.c.previous ELSE @,
                     !.c.pc = IF heap.c.after = "request" /\ found
                              THEN "next" ELSE "idle"]
    /\ ListUnchanged

\* Inbox_Init: the front node, posted, and the sentinel after it
InitList ==
    /\ \E det \in BOOLEAN : InitRanks(2, det)
    /\ plan = <<>>
    /\ input = [r \in 0 .. 1 |-> 0]
    /\ quota = MaxListFrames
    /\ heap = [nodes |-> <<[Guard EXCEPT !.available = 1, !.next = 2], Guard>>,
               front |-> 1, back |-> 2,
               p |-> [pc |-> "idle", message |-> NULL, type |-> "GUARD", tag |-> 0],
               c |-> [pc |-> "idle", previous |-> NULL, message |-> NULL,
                      tag |-> 0, next |-> NULL, after |-> "none"],
               saved |-> <<>>, deleted |-> {}, frames |-> 0]

NextList ==
    \/ \E kind \in SaveKinds : Save_Start(kind)
    \/ Save_Step
    \/ \E tag \in FinTags : Retrieve_Start(tag)
    \/ Retrieve_Next
    \/ Retrieve_Wait
    \/ Retrieve_Type
    \/ Retrieve_Delete
    \/ Retrieve_Unlink

SpecList == InitList /\ [][NextList]_vars

(***************************************************************************)
(* Specification of the runs with collectives                              *)
(***************************************************************************)
Collectives(n) ==
    {[kind |-> "Barrier", root |-> 0, op |-> MIMPI_NOOP, count |-> 0]}
    \cup {[kind |-> "Bcast", root |-> root, op |-> MIMPI_NOOP, count |-> CollCount] :
            root \in 0 .. (n - 1)}
    \cup {[kind |-> "Reduce", root |-> root, op |-> op, count |-> CollCount] :
            root \in 0 .. (n - 1), op \in MIMPI_Op}

\* every rank calls the same collective MaxColl times, with point-to-point
\* calls before, between and after
InitColl ==
    /\ \E det \in BOOLEAN : InitWorld(Cardinality(CollRanks), det)
    /\ \E c \in Collectives(Cardinality(CollRanks)) : plan = [k \in 1 .. MaxColl |-> c]
    /\ input \in [CollRanks -> InputBytes]
    /\ quota = MaxCollCalls

NextColl ==
    \/ \E r \in Ranks : MIMPI_Barrier(r)
    \/ \E r \in Ranks : MIMPI_Bcast(r)
    \/ \E r \in Ranks : MIMPI_Reduce(r)
    \/ \E r \in Ranks : Collect_Retrieve(r)
    \/ \E r \in Ranks : Distribute_Retrieve(r)
    \/ \E r \in Ranks : \E d \in Peers(r) : MIMPI_Send(r, 1, d, 1)
    \/ \E r \in Ranks : \E s \in Peers(r) : MIMPI_Recv(r, 1, s, 1)
    \/ \E r \in Ranks : Recv_Retrieve(r)
    \/ \E r \in Ranks, p \in Ranks : Receiver_Main(r, p)

SpecColl == InitColl /\ [][NextColl]_vars

(***************************************************************************)
(* Specification of the runs in which ranks finish                         *)
(***************************************************************************)
\* point-to-point calls of one byte between the ranks, each of which may
\* call MIMPI_Finalize or end without it at any point between two calls
InitFin ==
    /\ \E det \in BOOLEAN : InitWorld(Cardinality(FinRanks), det)
    /\ plan = <<>>
    /\ input = [r \in FinRanks |-> 0]
    /\ quota = MaxFinCalls

NextFin ==
    \/ \E r \in Ranks : \E d \in Peers(r), t \in FinTags : MIMPI_Send(r, 1, d, t)
    \/ \E r \in Ranks : \E s \in Peers(r), t \in FinTags : MIMPI_Recv(r, 1, s, t)
    \/ \E r \in Ranks : Recv_Retrieve(r)
    \/ \E r \in Ranks, p \in Ranks : Receiver_Main(r, p)
    \/ \E r \in Ranks : MIMPI_Finalize(r)
    \/ \E r \in Ranks : Finalize_Join(r)
    \/ \E r \in Ranks : Exit(r)

SpecFin == InitFin /\ [][NextFin]_vars

(***************************************************************************)
(* Specification of the runs in which ranks finish, with fair scheduling   *)
(***************************************************************************)
\* the collective of a fair run: a barrier, a broadcast or a reduction
LiveCollectives ==
    {[kind |-> "Barrier", root |-> 0, op |-> MIMPI_NOOP, count |-> 0],
     [kind |-> "Bcast", root |-> 0, op |-> MIMPI_NOOP, count |-> CollCount],
     [kind |-> "Reduce", root |-> 0, op |-> "SUM", count |-> CollCount]}

\* every rank may call one collective and point-to-point calls of one byte,
\* and may call MIMPI_Finalize or end at any point between two calls
InitLive ==
    /\ \E det \in BOOLEAN : InitWorld(Cardinality(FinRanks), det)
    /\ \E c \in LiveCollectives : plan = <<c>>
    /\ input = [r \in FinRanks |-> 3]
    /\ quota = MaxLiveCalls

NextLive ==
    \/ \E r \in Ranks : \E d \in Peers(r), t \in FinTags : MIMPI_Send(r, 1, d, t)
    \/ \E r \in Ranks : \E s \in Peers(r), t \in FinTags : MIMPI_Recv(r, 1, s, t)
    \/ \E r \in Ranks : Recv_Retrieve(r)
    \/ \E r \in Ranks, p \in Ranks : Receiver_Main(r, p)
    \/ \E r \in Ranks : MIMPI_Barrier(r)
    \/ \E r \in Ranks : MIMPI_Bcast(r)
    \/ \E r \in Ranks : MIMPI_Reduce(r)
    \/ \E r \in Ranks : Collect_Retrieve(r)
    \/ \E r \in Ranks : Distribute_Retrieve(r)
    \/ \E r \in Ranks : MIMPI_Finalize(r)
    \/ \E r \in Ranks : Finalize_Join(r)
    \/ \E r \in Ranks : Exit(r)

\* the next step of the user thread of rank r inside a blocking call: an
\* iteration of Inbox_Retrieve, or of the joins of MIMPI_Finalize
User_Step(r) ==
    \/ Recv_Retrieve(r)
    \/ Collect_Retrieve(r)
    \/ Distribute_Retrieve(r)
    \/ Finalize_Join(r)

\* a thread that can take its next step eventually takes it: the user thread
\* inside a blocking call, and every receiver thread
SpecLive ==
    /\ InitLive
    /\ [][NextLive]_vars
    /\ \A r \in FinRanks :
          /\ WF_vars(User_Step(r))
          /\ \A p \in FinRanks \ {r} : WF_vars(Receiver_Main(r, p))

(***************************************************************************)
(* Specification of the runs with receives of the size of a group buffer   *)
(***************************************************************************)
\* the counts of the point-to-point calls of these runs: one byte, and the
\* sizes of the working buffers of the collectives (count 0 and CollCount)
GroupCounts == {1, RetcodeSize, CollCount + RetcodeSize}
\* the tags of the receives of these runs: the wildcard and one other
GroupTags == {MIMPI_ANY_TAG, 1}

\* every rank calls the same collective MaxColl times, with point-to-point
\* calls before, between and after
InitGroup ==
    /\ \E det \in BOOLEAN : InitWorld(Cardinality(CollRanks), det)
    /\ \E c \in Collectives(Cardinality(CollRanks)) : plan = [k \in 1 .. MaxColl |-> c]
    /\ input = [r \in CollRanks |-> 3]
    /\ quota = MaxCollCalls

NextGroup ==
    \/ \E r \in Ranks : MIMPI_Barrier(r)
    \/ \E r \in Ranks : MIMPI_Bcast(r)
    \/ \E r \in Ranks : MIMPI_Reduce(r)
    \/ \E r \in Ranks : Collect_Retrieve(r)
    \/ \E r \in Ranks : Distribute_Retrieve(r)
    \/ \E r \in Ranks : \E d \in Peers(r), c \in GroupCounts : MIMPI_Send(r, c, d, 1)
    \/ \E r \in Ranks : \E s \in Peers(r), c \in GroupCounts, t \in GroupTags :
          MIMPI_Recv(r, c, s, t)
    \/ \E r \in Ranks : Recv_Retrieve(r)
    \/ \E r \in Ranks, p \in Ranks : Receiver_Main(r, p)

SpecGroup == InitGroup /\ [][NextGroup]_vars

(***************************************************************************)
(* Properties of the point-to-point runs                                   *)
(***************************************************************************)
\* a user receive (count, tag) and a message sent with (m.count, m.tag) match:
\* the sizes are equal, and the tags are equal or one of them is the wildcard
Matches(count, tag, m) ==
    m.count = count /\ (tag = MIMPI_ANY_TAG \/ m.tag = MIMPI_ANY_TAG \/ m.tag = tag)

\* the calls of s, by index, that sent a message to d
SendIdx(s, d) ==
    {i \in 1 .. Len(hist[s]) :
        hist[s][i].op = "Send" /\ hist[s][i].peer = d
        /\ hist[s][i].ret = MIMPI_SUCCESS}

\* the payloads rank d received from s in its calls before call k
ConsumedBefore(d, k, s) ==
    {hist[d][j].data : j \in {j \in 1 .. Len(hist[d]) :
        j < k /\ hist[d][j].op = "Recv" /\ hist[d][j].peer = s
        /\ hist[d][j].ret = MIMPI_SUCCESS}}

ConsumesRequest(r, p) ==
    /\ pc[r] = "retrieve"
    /\ call[r].peer = p
    /\ detection[r]
    /\ pos[r] < Len(inbox[r][p])
    /\ inbox[r][p][pos[r] + 1].type = "REQUEST"
    /\ Len(inbox'[r][p]) < Len(inbox[r][p])

\* C8: when a retrieve consumes a REQUEST {size = c, tag = t} and the Outbox
\* for that peer holds an entry {tag = t, size = c}, one such entry is removed
\* and the retrieve continues (it does not return), for every c and t.
C8_RequestPopsEntry ==
    [][\A r \in Ranks : \A p \in Peers(r) :
          LET q == inbox[r][p][pos[r] + 1]
              same == {i \in 1 .. Len(outbox[r][p]) :
                          outbox[r][p][i] = [tag |-> q.tag, size |-> q.size]}
          IN (ConsumesRequest(r, p) /\ same # {}) =>
                /\ pc'[r] = "retrieve"
                /\ hist'[r] = hist[r]
                /\ \E i \in same : outbox'[r][p] = RemoveAt(outbox[r][p], i)]_vars

\* C9: a Recv returns DEADLOCK_DETECTED on a REQUEST of peer p only if the
\* Recv of p that wrote the request cannot be satisfied by a message sent to
\* p: no message sent to p before, matching the request and not consumed by
\* an earlier Recv of p, exists.
C9_NoFalsePositive ==
    \A r \in Ranks : \A i \in 1 .. Len(hist[r]) :
        LET e == hist[r][i]
        IN (e.op = "Recv" /\ e.ret = MIMPI_ERROR_DEADLOCK_DETECTED) =>
            ~ \E j \in SendIdx(r, e.peer) :
                 /\ j < i
                 /\ Matches(e.req.size, e.req.tag, hist[r][j])
                 /\ hist[r][j].data \notin ConsumedBefore(e.peer, e.req.data, r)

\* the REQUEST that call k of rank b wrote is still on its way to rank a: in
\* the channel, or in the inbox of a
RequestPending(b, k, a) ==
    \/ \E n \in 1 .. Len(chan[b][a]) :
          chan[b][a][n].tag = MIMPI_REQUEST_TAG /\ chan[b][a][n].data.call = k
    \/ \E n \in 1 .. Len(inbox[a][b]) :
          inbox[a][b][n].type = "REQUEST" /\ inbox[a][b][n].data = k

\* ranks a and b are both inside a Recv from each other (call i of a, call k of
\* b), with detection enabled, the request of each still on its way to the
\* other, and neither has sent the other a message that matches the other's Recv
SymmetricRecv(a, i, b, k) ==
    /\ a # b
    /\ detection[a] /\ detection[b]
    /\ pc[a] = "retrieve" /\ call[a].op = "Recv" /\ call[a].peer = b
    /\ Len(hist[a]) = i - 1
    /\ pc[b] = "retrieve" /\ call[b].op = "Recv" /\ call[b].peer = a
    /\ Len(hist[b]) = k - 1
    /\ RequestPending(a, i, b) /\ RequestPending(b, k, a)
    /\ \A j \in SendIdx(a, b) : ~Matches(call[b].count, call[b].tag, hist[a][j])
    /\ \A j \in SendIdx(b, a) : ~Matches(call[a].count, call[a].tag, hist[b][j])

\* C7: two ranks inside symmetric Recv calls, neither having sent the other a
\* message that can satisfy the other's Recv, both return DEADLOCK_DETECTED
\* from these calls.
C7_SymmetricDeadlock ==
    \A a \in P2PRanks : \A b \in {q \in P2PRanks : q > a} :
      \A i \in 1 .. MaxCalls : \A k \in 1 .. MaxCalls :
        SymmetricRecv(a, i, b, k)
            ~> /\ Len(hist[a]) >= i
               /\ hist[a][i].ret = MIMPI_ERROR_DEADLOCK_DETECTED
               /\ Len(hist[b]) >= k
               /\ hist[b][k].ret = MIMPI_ERROR_DEADLOCK_DETECTED

(***************************************************************************)
(* Properties of the runs with collectives                                 *)
(***************************************************************************)
\* rank r has returned from its k-th collective: the entry of that call
CollEntries(r, k) ==
    {i \in 1 .. Len(hist[r]) : hist[r][i].op \in CollKinds /\ hist[r][i].k = k}
HasReturned(r, k) == CollEntries(r, k) # {}
CollEntry(r, k) == hist[r][CHOOSE i \in CollEntries(r, k) : TRUE]

\* rank r has called its k-th collective
Entered(r, k) ==
    \/ HasReturned(r, k)
    \/ pc[r] = "retrieve" /\ call[r].op \in CollKinds /\ call[r].k = k

AllReturned(k) == \A r \in Ranks : HasReturned(r, k)

\* C2: after every rank has returned from a Bcast with the same root and
\* count, either every rank returned SUCCESS and holds the root's input, or
\* every rank returned the same non-success code.
C2_Bcast ==
    \A k \in 1 .. Len(plan) :
        (plan[k].kind = "Bcast" /\ AllReturned(k)) =>
            \/ \A r \in Ranks :
                  /\ CollEntry(r, k).ret = MIMPI_SUCCESS
                  /\ CollEntry(r, k).buf = Input(plan[k].root, k, plan[k].count)
            \/ /\ CollEntry(0, k).ret # MIMPI_SUCCESS
               /\ \A r \in Ranks : CollEntry(r, k).ret = CollEntry(0, k).ret

\* the fold of two bytes under a reduction operator
ByteFold(op, x, y) ==
    CASE op = "MAX" -> IF x >= y THEN x ELSE y
      [] op = "MIN" -> IF x <= y THEN x ELSE y
      [] op = "SUM" -> (x + y) % 256
      [] op = "PROD" -> (x * y) % 256

\* the fold of byte i of the send buffers of ranks 0 .. n - 1 in collective k
RECURSIVE FoldRanks(_, _, _, _)
FoldRanks(n, k, i, op) ==
    IF n = 1 THEN Input(0, k, i)[i]
    ELSE ByteFold(op, FoldRanks(n - 1, k, i, op), Input(n - 1, k, i)[i])

\* C3: a Reduce that returns SUCCESS leaves, at the root, in every byte of
\* recv the fold of that byte of the send buffers of all ranks, and at any
\* other rank recv as it was.
C3_Reduce ==
    \A k \in 1 .. Len(plan) : \A r \in Ranks :
        (plan[k].kind = "Reduce" /\ HasReturned(r, k)
            /\ CollEntry(r, k).ret = MIMPI_SUCCESS) =>
            IF r = plan[k].root
            THEN CollEntry(r, k).buf =
                    [i \in 1 .. plan[k].count |-> FoldRanks(size, k, i, plan[k].op)]
            ELSE CollEntry(r, k).buf = Old(plan[k].count)

\* C4: a Barrier returns SUCCESS at a rank only after every rank has entered
\* the same Barrier; and when one rank returns a non-success code from a
\* Barrier, no rank returns SUCCESS from it.
C4_Barrier ==
    \A k \in 1 .. Len(plan) : \A r \in Ranks :
        (plan[k].kind = "Barrier" /\ HasReturned(r, k)) =>
            /\ CollEntry(r, k).ret = MIMPI_SUCCESS =>
                  \A q \in Ranks : Entered(q, k)
            /\ \A q \in Ranks : HasReturned(q, k) =>
                  (CollEntry(q, k).ret = MIMPI_SUCCESS
                      <=> CollEntry(r, k).ret = MIMPI_SUCCESS)

\* C5: the ranks that have returned from the same collective returned the
\* same code.
C5_SameCode ==
    \A k \in 1 .. Len(plan) : \A r \in Ranks : \A q \in Ranks :
        (HasReturned(r, k) /\ HasReturned(q, k)) =>
            CollEntry(r, k).ret = CollEntry(q, k).ret

\* C6: when an internal send or receive of a rank failed during a
\* collective, no rank returns SUCCESS from that collective.
C6_NoSilentSuccess ==
    \A k \in 1 .. Len(plan) : \A r \in Ranks : \A q \in Ranks :
        (HasReturned(r, k) /\ HasReturned(q, k) /\ CollEntry(r, k).observed) =>
            CollEntry(q, k).ret # MIMPI_SUCCESS

(***************************************************************************)
(* Properties of the runs in which ranks finish                            *)
(***************************************************************************)
\* call i of rank r is a Send to or a Recv from peer p
P2PCall(r, i, p) ==
    /\ hist[r][i].op \in {"Send", "Recv"}
    /\ hist[r][i].peer = p

\* call i of rank r, with peer p, returned REMOTE_FINISHED
SawFinished(r, i, p) ==
    /\ P2PCall(r, i, p)
    /\ hist[r][i].ret = MIMPI_ERROR_REMOTE_FINISHED

\* rank p has called MIMPI_Finalize, or its process has ended
Finished(p) == pc[p] \in {"join", "finalized", "exited"}

\* a call returns REMOTE_FINISHED only for a peer that has itself finished:
\* what one peer did leaves the calls with the other peers as they were
OthersUnaffected ==
    \A r \in Ranks : \A i \in 1 .. Len(hist[r]) : \A p \in Peers(r) :
        SawFinished(r, i, p) => Finished(p)

Narrower(r, j, i) ==
    /\ hist[r][j].count = hist[r][i].count
    /\ hist[r][i].tag = MIMPI_ANY_TAG \/ hist[r][i].tag = hist[r][j].tag

NoMatching(r, p, count, tag) ==
    /\ \A n \in 1 .. Len(inbox[r][p]) :
          inbox[r][p][n].type = "MESSAGE"
              => ~_MIMPI_Match(count, tag, inbox[r][p][n].size, inbox[r][p][n].tag)
    /\ \A n \in 1 .. Len(chan[p][r]) :
          ~_MIMPI_Match(count, tag, chan[p][r][n].size, chan[p][r][n].tag)

\* rank r is inside a Recv from a peer that has called MIMPI_Finalize or has
\* ended and has no message for it; or inside its collective, which another
\* rank finished without calling
WaitsOnFinished(r) ==
    /\ pc[r] = "retrieve"
    /\ \/ /\ call[r].op = "Recv"
          /\ Finished(call[r].peer)
          /\ NoMatching(r, call[r].peer, call[r].count, call[r].tag)
       \/ /\ call[r].op \in CollKinds
          /\ \E p \in Peers(r) : Finished(p) /\ ~Entered(p, 1)

Leaves(r, codes) ==
    (WaitsOnFinished(r) /\ pc'[r] # "retrieve") =>
        hist'[r][Len(hist'[r])].ret \in codes

Unconsumed(r, p) ==
    SelectSeq(inbox[r][p], LAMBDA e : e.type = "MESSAGE")
        \o SelectSeq(chan[p][r], LAMBDA f : f.tag >= 0)

MatchingUnconsumed(r, p, count, tag) ==
    SelectSeq(Unconsumed(r, p), LAMBDA m : _MIMPI_Match(count, tag, m.size, m.tag))

\* rank r returns from the MIMPI_Recv it waits in
RecvReturns(r) ==
    /\ pc[r] = "retrieve"
    /\ call[r].op = "Recv"
    /\ pc'[r] # "retrieve"

C13_ExplicitTag ==
    \A d \in Ranks : \A k \in 1 .. Len(hist[d]) :
        LET e == hist[d][k]
        IN (e.op = "Recv" /\ e.ret = MIMPI_SUCCESS) =>
            \E i \in SendIdx(e.peer, d) :
                /\ hist[e.peer][i].data = e.data
                /\ hist[e.peer][i].count = e.count
                /\ e.tag # MIMPI_ANY_TAG => hist[e.peer][i].tag = e.tag

(***************************************************************************)
(* Properties of the rank arguments                                        *)
(***************************************************************************)
\* rank r returns in this step from a point-to-point call
P2PReturns(r) ==
    /\ Len(hist'[r]) = Len(hist[r]) + 1
    /\ hist'[r][Len(hist'[r])].op \in {"Send", "Recv"}

\* the return code the rank checks give for the peer argument of rank r
RankCheck(r, peer) ==
    IF peer = r THEN MIMPI_ERROR_ATTEMPTED_SELF_OP
    ELSE IF peer \notin Ranks THEN MIMPI_ERROR_NO_SUCH_RANK
    ELSE MIMPI_SUCCESS

\* C14: Send to and Recv from the caller's own rank return ATTEMPTED_SELF_OP,
\* with a rank outside [0, N) they return NO_SUCH_RANK, and in both cases the
\* call changes nothing: no frame is written to a channel (no REQUEST
\* either), no Outbox entry is pushed, no Inbox entry is consumed, and the
\* call never waits in Inbox_Retrieve.
C14_BadRank ==
    /\ [](\A r \in Ranks : pc[r] = "retrieve" => call[r].peer \in Peers(r))
    /\ [][\A r \in Ranks :
            (P2PReturns(r)
               /\ RankCheck(r, hist'[r][Len(hist'[r])].peer) # MIMPI_SUCCESS)
            => /\ hist'[r][Len(hist'[r])].ret =
                     RankCheck(r, hist'[r][Len(hist'[r])].peer)
               /\ pc[r] = "idle"
               /\ UNCHANGED <<chan, inbox, outbox, wopen, ropen, receiver>>]_vars

\* one rank got ATTEMPTED_SELF_OP from a Recv and NO_SUCH_RANK from a Send
C14_Witness ==
    \E r \in Ranks : \E i, j \in 1 .. Len(hist[r]) :
        /\ hist[r][i].op = "Recv" /\ hist[r][i].peer = r
        /\ hist[r][i].ret = MIMPI_ERROR_ATTEMPTED_SELF_OP
        /\ hist[r][j].op = "Send" /\ hist[r][j].peer \notin Ranks
        /\ hist[r][j].ret = MIMPI_ERROR_NO_SUCH_RANK

(***************************************************************************)
(* Properties of the framing                                               *)
(***************************************************************************)
\* the bytes of the frames n, n + 1, ... that rank s wrote; of the frame it
\* is writing only the prefix
RECURSIVE Encoded(_, _)
Encoded(s, n) ==
    IF n > Len(hist[s]) THEN <<>>
    ELSE LET m == hist[s][n]
         IN PrefixBytes(m.count, m.tag, m.data)
              \o (IF n = Len(hist[s]) /\ pc[s] = "suffix" THEN <<>>
                  ELSE SubSeq(m.data, prefix_count(m.count) + 1, m.count))
              \o Encoded(s, n + 1)

\* C15: the receiver decodes the frames written to a channel, in order, with
\* the tag, the size and the payload bytes they were written with, for
\* payloads of 0 bytes, 1 byte, the capacity of the prefix, one more, and
\* more; and whenever the receiver is about to read a header, the bytes in
\* the channel are those of the frames not yet read, from the first byte of
\* a header on.
C15_RoundTrip ==
    /\ Len(inbox[1][0]) <= Len(hist[0])
    /\ \A n \in 1 .. Len(inbox[1][0]) :
          /\ inbox[1][0][n].type = "MESSAGE"
          /\ inbox[1][0][n].tag = hist[0][n].tag
          /\ inbox[1][0][n].size = hist[0][n].count
          /\ inbox[1][0][n].data = hist[0][n].data
    /\ receiver[1][0] = "running" =>
          chan[0][1] = Encoded(0, Len(inbox[1][0]) + 1)

\* a frame with an overflow tail, an empty one and one that fills the prefix
\* were read, in this order
C15_Witness ==
    /\ Len(inbox[1][0]) = 3
    /\ inbox[1][0][1].size = MIMPI_PREFIX_SIZE + 1
    /\ inbox[1][0][1].tag = MIMPI_GROUP_TAG
    /\ inbox[1][0][2].size = 0
    /\ inbox[1][0][3].size = MIMPI_PREFIX_SIZE
    /\ inbox[1][0][3].tag = 300

(***************************************************************************)
(* Properties of MIMPI_Finalize                                            *)
(***************************************************************************)
Called(r) == pc[r] \in {"join", "finalized"}

\* C16: if every rank eventually calls MIMPI_Finalize, every call of it
\* eventually returns, whatever the calls before it returned and whatever is
\* left in the inboxes.
\* (A rank that has called stays in the call or has returned from it, so
\* "every rank eventually calls" is "from some state on every rank has called".)
C16_FinalizeReturns ==
    \A r \in FinRanks :
        (pc[r] = "join" /\ \A p \in FinRanks : Called(p)) ~> pc[r] = "finalized"

\* a rank returned from MIMPI_Finalize after one of its calls had returned an
\* error, and with an entry left in an inbox when it called
C16_Witness ==
    \E r \in FinRanks :
        /\ pc[r] = "finalized"
        /\ \E n \in 1 .. Len(hist[r]) :
              /\ hist[r][n].op # "Finalize"
              /\ hist[r][n].ret # MIMPI_SUCCESS
        /\ \E p \in Peers(r) :
              /\ pc[p] = "finalized"
              /\ \E n \in 1 .. Len(hist[p]) :
                    hist[p][n].op = "Send" /\ hist[p][n].ret = MIMPI_SUCCESS
              /\ \A n \in 1 .. Len(hist[r]) : hist[r][n].op # "Recv"

(***************************************************************************)
(* Properties of the tree                                                  *)
(***************************************************************************)
Computed == \A r \in Ranks : call[r] # Idle

Children(p) == {call[p].children[i] : i \in 1 .. MIMPI_CHILDREN} \ {-1}

\* the rank reached from r by following at most k parents
RECURSIVE Up(_, _)
Up(r, k) == IF k = 0 \/ call[r].parent = -1 THEN r ELSE Up(call[r].parent, k - 1)

\* C17: for every world size, root and rank the neighbours form one spanning
\* tree rooted at root: the root has no parent, every other rank has one
\* parent in [0, N), c has p as its parent iff p has c among its children
\* (once), no rank is its own parent or child, and every rank reaches the
\* root by following parents.
C17_SpanningTree ==
    Computed =>
        /\ \A r \in Ranks :
              /\ call[r].parent = -1 <=> r = plan[1].root
              /\ r # plan[1].root => call[r].parent \in Ranks \ {r}
              /\ Children(r) \subseteq Ranks \ {r}
              /\ Cardinality({i \in 1 .. MIMPI_CHILDREN : call[r].children[i] # -1})
                    = Cardinality(Children(r))
              /\ Up(r, size) = plan[1].root
        /\ \A c \in Ranks, p \in Ranks : call[c].parent = p <=> c \in Children(p)

\* the tree of the largest world with its last rank as the root
C17_Witness ==
    /\ Computed
    /\ size = MaxWorld
    /\ plan[1].root = size - 1
    /\ Cardinality(Children(plan[1].root)) = MIMPI_CHILDREN

(***************************************************************************)
(* Properties of the entries of an inbox                                   *)
(***************************************************************************)
\* the MESSAGE entries of the inbox of rank r for peer p, in their order
Messages(r, p) == SelectSeq(inbox[r][p], LAMBDA e : e.type = "MESSAGE")

HasClose(r, p) == \E n \in 1 .. Len(inbox[r][p]) : inbox[r][p][n].type = "CLOSE"

\* C18: a Retrieve that returns SUCCESS removes exactly one MESSAGE entry,
\* the earliest that matches; the entries it walked past stay, in their
\* order, so that a later Retrieve finds them (no Retrieve returns
\* REMOTE_FINISHED past an entry that matches).  A Retrieve that returns
\* REMOTE_FINISHED changes nothing in the inbox and the CLOSE entry stays.
\* No other step removes or reorders a MESSAGE entry: the receiver appends,
\* and Inbox_Destroy in MIMPI_Finalize frees the whole list.
C18_RemovesMatched ==
    [][\A r \in FinRanks : \A p \in FinRanks \ {r} :
          IF RecvReturns(r) /\ call[r].peer = p
                /\ hist'[r][Len(hist'[r])].ret = MIMPI_SUCCESS
          THEN \E k \in 1 .. Len(Messages(r, p)) :
                  /\ Messages(r, p)' = RemoveAt(Messages(r, p), k)
                  /\ Messages(r, p)[k].data = hist'[r][Len(hist'[r])].data
                  /\ \A j \in 1 .. k :
                        _MIMPI_Match(call[r].count, call[r].tag,
                                     Messages(r, p)[j].size, Messages(r, p)[j].tag)
                            <=> j = k
          ELSE /\ \/ Messages(r, p)' = Messages(r, p)
                  \/ /\ Len(Messages(r, p)') = Len(Messages(r, p)) + 1
                     /\ SubSeq(Messages(r, p)', 1, Len(Messages(r, p)))
                           = Messages(r, p)
                     /\ UNCHANGED <<pc, pos, hist>>
                  \/ /\ pc[r] = "join"
                     /\ Messages(r, p)' = <<>>
               /\ (RecvReturns(r) /\ call[r].peer = p
                     /\ hist'[r][Len(hist'[r])].ret = MIMPI_ERROR_REMOTE_FINISHED)
                  => /\ inbox'[r][p] = inbox[r][p]
                     /\ HasClose(r, p)'
                     /\ \A j \in 1 .. Len(Messages(r, p)) :
                           ~_MIMPI_Match(call[r].count, call[r].tag,
                                         Messages(r, p)[j].size,
                                         Messages(r, p)[j].tag)]_vars

\* a Recv returned the second message of its peer, walked past the first,
\* which stays in the inbox; and a Recv returned REMOTE_FINISHED with a
\* message walked past left in the inbox before the CLOSE entry
C18_Witness ==
    \E r \in FinRanks : \E p \in FinRanks \ {r} :
        /\ Len(hist[r]) >= 2
        /\ hist[r][1].op = "Recv" /\ hist[r][1].ret = MIMPI_SUCCESS
        /\ hist[r][1].data = <<2>>
        /\ hist[r][2].op = "Recv" /\ hist[r][2].ret = MIMPI_ERROR_REMOTE_FINISHED
        /\ Len(Messages(r, p)) = 1
        /\ Messages(r, p)[1].data = <<1>>
        /\ HasClose(r, p)

(***************************************************************************)
(* Properties of the payload buffers                                       *)
(***************************************************************************)
\* the entries of the inbox that point to buffer b
Owners(b) == {n \in 1 .. Len(inbox[1][0]) : inbox[1][0][n].data = b}

\* C19: every payload buffer is owned by at most one entry and is released
\* exactly once: an entry of size 0 has no data, also after a frame with a
\* payload or a REQUEST frame; no two entries point to one buffer, no entry
\* points to a released buffer or to no buffer at all, no buffer is freed
\* twice, and after Inbox_Destroy every buffer has been freed.
C19_OwnedOnce ==
    /\ \A n \in 1 .. Len(inbox[1][0]) :
          /\ inbox[1][0][n].size = 0 => inbox[1][0][n].data = NULL
          /\ inbox[1][0][n].data # NULL =>
                /\ inbox[1][0][n].data \in 1 .. Len(heap.bufs)
                /\ heap.bufs[inbox[1][0][n].data] = 0
    /\ \A b \in 1 .. Len(heap.bufs) :
          /\ Cardinality(Owners(b)) <= 1
          /\ heap.bufs[b] <= 1
          /\ heap.bufs[b] = 0 => Owners(b) # {}
    /\ heap.wild = 0
    /\ pc[1] = "finalized" => \A b \in 1 .. Len(heap.bufs) : heap.bufs[b] = 1

(***************************************************************************)
(* Properties of the list of an inbox under both threads                   *)
(***************************************************************************)
\* the receiver is between its first and its last write to node n
Writing(n) == heap.p.pc \in {"type", "link", "fields", "post"} /\ heap.p.message = n

\* node n has been posted, is not being written and has not been freed
Stable(n) ==
    /\ heap.nodes[n].available > 0
    /\ ~Writing(n)
    /\ ~heap.nodes[n].freed

\* the nodes reached from node n by next pointers, n excluded
RECURSIVE Chain(_, _)
Chain(n, k) ==
    IF k = 0 \/ heap.nodes[n].next = NULL THEN <<>>
    ELSE <<heap.nodes[n].next>> \o Chain(heap.nodes[n].next, k - 1)

\* C20: under every interleaving of the receiver thread and the user thread
\* on one inbox, the user thread reads the fields of a node only after the
\* node was posted and the receiver has written them all; the receiver
\* writes only to the tail sentinel; and the list from the front holds, in
\* the order they were saved, every node posted and not unlinked, then the
\* node being written and the sentinel: unlinking a node (the last one before
\* the tail included) loses no node the receiver appends.
C20_ListIntegrity ==
    /\ heap.c.pc \in {"type", "delete"} => Stable(heap.c.message)
    /\ heap.c.pc = "next" =>
          heap.c.message = heap.front \/ Stable(heap.c.message)
    /\ heap.c.pc = "unlink" =>
          heap.c.previous = heap.front \/ Stable(heap.c.previous)
    /\ heap.c.pc = "wait" => ~heap.nodes[heap.c.message].freed
    /\ heap.p.pc \in {"type", "link", "fields", "post"} =>
          /\ heap.nodes[heap.p.message].available = 0
          /\ ~heap.nodes[heap.p.message].freed
          /\ heap.p.message \notin {heap.front, heap.back}
          /\ \A n \in 1 .. Len(heap.saved) : heap.saved[n] # heap.p.message
    /\ heap.p.pc = "new" => heap.p.message = heap.back
    /\ Chain(heap.front, Len(heap.nodes)) =
          SelectSeq(heap.saved, LAMBDA n : n \notin heap.deleted)
            \o (IF heap.p.pc \in {"type", "link"} THEN <<heap.p.message>>
                ELSE IF heap.p.pc \in {"fields", "post"}
                    THEN <<heap.p.message, heap.back>>
                ELSE <<heap.back>>)

\* the user thread unlinks the last node before the tail while the receiver
\* is writing the node after it
C20_Witness ==
    /\ heap.c.pc = "unlink"
    /\ heap.c.next = heap.p.message
    /\ heap.p.pc \in {"type", "link", "fields", "post"}
    /\ heap.deleted # {}

(***************************************************************************)
(* Properties of the entries of the collectives in an inbox                *)
(***************************************************************************)
\* the entries of the inbox of rank r for peer p that a collective of p
\* sent, in their order
GroupEntries(r, p) ==
    SelectSeq(inbox[r][p],
              LAMBDA e : e.type = "MESSAGE" /\ e.tag = MIMPI_GROUP_TAG)

\* C21: a user-level Recv never consumes an entry sent by a collective:
\* while rank r is inside MIMPI_Recv from p, whatever its tag and count, the
\* GROUP_TAG entries of its inbox for p all stay, in their order (the
\* receiver may append one), so that the next collective finds them.
C21_RecvKeepsGroup ==
    [][\A r \in CollRanks : \A p \in CollRanks \ {r} :
          (pc[r] = "retrieve" /\ call[r].op = "Recv" /\ call[r].peer = p)
          => /\ Len(GroupEntries(r, p)') >= Len(GroupEntries(r, p))
             /\ SubSeq(GroupEntries(r, p)', 1, Len(GroupEntries(r, p)))
                   = GroupEntries(r, p)]_vars

(***************************************************************************)
(* Properties of MIMPI_Finalize as a point of synchronization              *)
(***************************************************************************)
\* rank p has sent its close frame to r and closed its write end
\* (MIMPI_Finalize), or the write end was closed when p ended
ClosedTo(p, r) == ~wopen[p][r]

\* the n-th message rank p sent is in the channel to rank r
InFlight(p, r, n) ==
    \E i \in 1 .. Len(chan[p][r]) :
        /\ chan[p][r][i].tag >= 0
        /\ chan[p][r][i].data = Payload(n, chan[p][r][i].size)

\* the n-th message rank p sent is an entry of the inbox of rank r
Enqueued(r, p, n) ==
    \E i \in 1 .. Len(inbox[r][p]) :
        /\ inbox[r][p][i].type = "MESSAGE"
        /\ inbox[r][p][i].tag >= 0
        /\ inbox[r][p][i].data = Payload(n, inbox[r][p][i].size)

\* rank p returns from a MIMPI_Send to rank r
SendReturns(p, r) ==
    /\ Len(hist'[p]) = Len(hist[p]) + 1
    /\ hist'[p][Len(hist'[p])].op = "Send"
    /\ hist'[p][Len(hist'[p])].peer = r

\* C22: MIMPI_Finalize is a point of synchronization of all the ranks.
\* (1) Rank r has returned from MIMPI_Finalize only if every peer has sent
\*     its close frame to r or closed its channel to r, and r's receiver for
\*     the peer has returned.
\* (2) While r is inside MIMPI_Finalize and a peer has done neither, r's
\*     receiver for the peer is running and holds the read end.
\* (3) A MIMPI_Send to r of a peer, made while r is inside MIMPI_Finalize,
\*     returns SUCCESS and its frame is written to the channel.
\* (4) Every message in the channel to a rank inside MIMPI_Finalize becomes
\*     an entry of that rank's inbox.
\* (5) No entry is consumed once r is inside MIMPI_Finalize: r returns from
\*     no call but MIMPI_Finalize, and an inbox of r changes only by an
\*     entry the receiver appends or by Inbox_Destroy freeing the whole list.
C22_FinalizeSynchronizes ==
    /\ [](\A r \in FinRanks : \A p \in FinRanks \ {r} :
            /\ pc[r] = "finalized"
                  => ClosedTo(p, r) /\ receiver[r][p] = "exited"
            /\ (pc[r] = "join" /\ ~ClosedTo(p, r))
                  => receiver[r][p] = "running" /\ ropen[p][r])
    /\ [][\A r \in FinRanks : \A p \in FinRanks \ {r} :
            /\ (pc[r] = "join" /\ SendReturns(p, r))
                  => /\ hist'[p][Len(hist'[p])].ret = MIMPI_SUCCESS
                     /\ Len(chan'[p][r]) = Len(chan[p][r]) + 1
                     /\ \A n \in 1 .. MaxLiveCalls :
                           n = NumCalls(p, {"Send"}) + 1 => InFlight(p, r, n)'
            /\ pc[r] \in {"join", "finalized"}
                  => /\ pc'[r] \in {"join", "finalized"}
                     /\ \/ hist'[r] = hist[r]
                        \/ hist'[r] = Append(hist[r], [op |-> "Finalize"])
                     /\ \/ inbox'[r][p] = inbox[r][p]
                        \/ inbox'[r][p] = <<>>
                        \/ /\ Len(inbox'[r][p]) = Len(inbox[r][p]) + 1
                           /\ SubSeq(inbox'[r][p], 1, Len(inbox[r][p]))
                                 = inbox[r][p]]_vars
    /\ \A r \in FinRanks : \A p \in FinRanks \ {r} : \A n \in 1 .. MaxLiveCalls :
          (pc[r] = "join" /\ InFlight(p, r, n)) ~> Enqueued(r, p, n)

\* rank p saw that r had finished (its Recv returned REMOTE_FINISHED), then
\* sent to r, which is still inside MIMPI_Finalize: the Send returned
\* SUCCESS and its message is an entry of r's inbox
C22_Witness ==
    \E r \in FinRanks : \E p \in FinRanks \ {r} :
        /\ pc[r] = "join"
        /\ Len(hist[p]) = 2
        /\ hist[p][1].op = "Recv" /\ hist[p][1].peer = r
        /\ hist[p][1].ret = MIMPI_ERROR_REMOTE_FINISHED
        /\ hist[p][2].op = "Send" /\ hist[p][2].peer = r
        /\ hist[p][2].ret = MIMPI_SUCCESS
        /\ Enqueued(r, p, 1)
====
